---- MODULE Spec2Model ----
(***************************************************************************)
(* BinJSON (binjson.js): the binary envelope codec, the SecurityManager,   *)
(* the DataHandler chunker, the BinJSON orchestrator and the               *)
(* BinJSONWebSocket send / onmessage reassembly path.                      *)
(*                                                                         *)
(* Buffers are sequences of bytes (0..255).  JavaScript values are tagged  *)
(* records: [t |-> "nil"], [t |-> "bool", b |-> _], [t |-> "int", i |-> _],*)
(* [t |-> "str", s |-> bytes], [t |-> "arr", a |-> seq of values],         *)
(* [t |-> "map", m |-> seq of <<key bytes, value>>].                       *)
(* The libraries the code calls (msgpack-lite, zlib, crypto-js, ajv, ws)   *)
(* are modelled by what the calls do on the byte level; where the real     *)
(* primitive is too large to compute (deflate, AES) a small invertible     *)
(* stand-in with the same framing, block size and failure behaviour is     *)
(* used.                                                                   *)
(***************************************************************************)
EXTENDS Integers, Sequences, FiniteSets, TLC

VARIABLES
  handler,    \* BinJSON.handler: the DataHandler's mode and chunkSize
  validator,  \* BinJSON.validator: TRUE when a schema was given, FALSE for null
  security,   \* BinJSON.security: the SecurityManager's key
  envelope,   \* the caller's BinaryJSON (what serialize last returned), or null
  result,     \* the step just taken: its name, arguments, error, return value
  wsState,    \* per channel: ws.readyState
  chunkBuffer,        \* per channel: BinJSONWebSocket.chunkBuffer
  currentBinaryJSON,  \* per channel: BinJSONWebSocket.currentBinaryJSON
  inbox,      \* per channel: messages the transport has yet to hand to onmessage
  sent,       \* history: one record per send call that passed the open check
  file        \* the bytes of the file at the path saveToFile and loadFromFile use

vars == <<handler, validator, security, envelope, result, wsState, chunkBuffer,
          currentBinaryJSON, inbox, sent, file>>

-----------------------------------------------------------------------------
(* Bounds of the model *)

\* longest byte sequence given to process / encrypt in the pure-function specs
MaxDataLen == 4
\* largest small chunk size tried by the chunker spec (besides 512 and 1024)
MaxChunkSize == 3
\* length of the 2000-byte concatenation of the streaming scenario
ScenarioLen == 2000
\* number of send calls that reach the channel in one run of the send spec
MaxSends == 2
\* number of envelopes streamed in one run of the receive spec
MaxStreams == 1
\* number of messages a foreign peer puts on one channel
MaxInbound == 2

(* Program constants *)
CHUNK_SIZE == 1024
DEFAULT_SCHEMA_ID == 1
ExampleChunkSize == 512
MAGIC_NUMBER == <<66, 74>>

-----------------------------------------------------------------------------
(* Buffer helpers *)

Min(a, b) == IF a < b THEN a ELSE b
Max(a, b) == IF a > b THEN a ELSE b

\* Buffer.prototype.slice index normalisation: negative counts from the end,
\* everything is clamped to [0, len]
NormIndex(i, len) == IF i < 0 THEN Max(len + i, 0) ELSE Min(i, len)

\* buf.slice(start, end)
BufSlice(buf, start, end) ==
  LET s == NormIndex(start, Len(buf))
      e == NormIndex(end, Len(buf))
  IN  IF e <= s THEN <<>> ELSE SubSeq(buf, s + 1, e)

\* buf.slice(start)
BufSliceFrom(buf, start) == BufSlice(buf, start, Len(buf))

RECURSIVE BufferConcat(_)
\* Buffer.concat(list)
BufferConcat(list) ==
  IF list = <<>> THEN <<>> ELSE Head(list) \o BufferConcat(Tail(list))

\* a 32-bit read of this value or more saturates here: the model's integers
\* are 32-bit signed, and every use of such a read is a slice bound, which
\* clamps to the buffer length anyway
Sat32 == 2130706432

\* the 4 bytes of n in little-endian order
UInt32BytesLE(n) ==
  << n % 256, (n \div 256) % 256, (n \div 65536) % 256, (n \div 16777216) % 256 >>

\* the 4 big-endian bytes of n, 0 <= n < 2^31
UInt32Bytes(n) ==
  << (n \div 16777216) % 256, (n \div 65536) % 256, (n \div 256) % 256, n % 256 >>

\* buf.readUInt32BE(offset), for offset + 4 <= Len(buf)
ReadUInt32BE(buf, offset) ==
  IF buf[offset + 1] >= 127
  THEN Sat32
  ELSE buf[offset + 1] * 16777216 + buf[offset + 2] * 65536
       + buf[offset + 3] * 256 + buf[offset + 4]

\* readUInt32BE throws a RangeError when fewer than 4 bytes follow offset
ReadUInt32BEThrows(buf, offset) == offset + 4 > Len(buf)

RECURSIVE DecDigits(_)
\* Number.prototype.toString() of a non-negative integer, as character codes
DecDigits(n) ==
  IF n < 10 THEN << 48 + n >> ELSE Append(DecDigits(n \div 10), 48 + (n % 10))

-----------------------------------------------------------------------------
(* Values and the strings the code uses *)

VNil == [t |-> "nil"]
VBool(b) == [t |-> "bool", b |-> b]
VInt(i) == [t |-> "int", i |-> i]
VStr(s) == [t |-> "str", s |-> s]
VArr(a) == [t |-> "arr", a |-> a]
VMap(m) == [t |-> "map", m |-> m]
\* the JavaScript undefined (a missing property, a value that was never set)
VUndefined == [t |-> "undefined"]

K_schema_id == <<115, 99, 104, 101, 109, 97, 95, 105, 100>>
K_timestamp == <<116, 105, 109, 101, 115, 116, 97, 109, 112>>
K_compression == <<99, 111, 109, 112, 114, 101, 115, 115, 105, 111, 110>>
S_zlib == <<122, 108, 105, 98>>
S_none == <<110, 111, 110, 101>>
S_gzip == <<103, 122, 105, 112>>
S_ZLIB == <<90, 76, 73, 66>>
K_id == <<105, 100>>
K_name == <<110, 97, 109, 101>>
K_age == <<97, 103, 101>>
S_Alice == <<65, 108, 105, 99, 101>>
S_Bob == <<66, 111, 98>>

-----------------------------------------------------------------------------
(* msgpack-lite: encode and decode *)

RECURSIVE MsgpackEncode(_), EncodeItems(_), EncodeEntries(_)

\* msgpack.encode(value); integers are 0 .. 2^31 - 1, strings, arrays and maps
\* have fewer than 32 / 16 / 16 elements
MsgpackEncode(v) ==
  CASE v.t = "nil" -> <<192>>
    [] v.t = "undefined" -> <<192>>
    [] v.t = "bool" -> IF v.b THEN <<195>> ELSE <<194>>
    [] v.t = "int" ->
         IF v.i < 128 THEN <<v.i>>
         ELSE IF v.i < 256 THEN <<204, v.i>>
         ELSE IF v.i < 65536 THEN <<205, v.i \div 256, v.i % 256>>
         ELSE <<206>> \o UInt32Bytes(v.i)
    [] v.t = "str" -> <<160 + Len(v.s)>> \o v.s
    [] v.t = "arr" -> <<144 + Len(v.a)>> \o EncodeItems(v.a)
    [] v.t = "map" -> <<128 + Len(v.m)>> \o EncodeEntries(v.m)

EncodeItems(items) ==
  IF items = <<>> THEN <<>>
  ELSE MsgpackEncode(Head(items)) \o EncodeItems(Tail(items))

EncodeEntries(entries) ==
  IF entries = <<>> THEN <<>>
  ELSE MsgpackEncode(VStr(Head(entries)[1])) \o MsgpackEncode(Head(entries)[2])
       \o EncodeEntries(Tail(entries))

\* a decoding step gives [ok |-> TRUE, val, rest] or [ok |-> FALSE, err]
DecodeFail(e) == [ok |-> FALSE, err |-> e]
DecodeOk(v, rest) == [ok |-> TRUE, val |-> v, rest |-> rest]

\* the property key a decoded map key becomes (object keys are strings)
KeyOf(v) ==
  CASE v.t = "str" -> v.s
    [] v.t = "int" -> DecDigits(v.i)
    [] OTHER -> <<>>

RECURSIVE DecodeValue(_), DecodeItems(_, _, _), DecodeEntries(_, _, _)

\* one value read from the front of buf: the decoder reserves the bytes each
\* token needs (BUFFER_SHORTAGE when they are not there) and rejects a type
\* byte it has no token for (193).  The tokens of the value types left out
\* of the model (floats, negative integers, bin, ext, the 8/16/32-bit length
\* forms) are not decoded: no input of the model starts a value with them.
DecodeValue(buf) ==
  IF Len(buf) < 1 THEN DecodeFail("BUFFER_SHORTAGE")
  ELSE LET type == buf[1]
           body == Tail(buf)
       IN
       CASE type < 128 -> DecodeOk(VInt(type), body)
         [] type >= 128 /\ type < 144 -> DecodeEntries(body, type - 128, <<>>)
         [] type >= 144 /\ type < 160 -> DecodeItems(body, type - 144, <<>>)
         [] type >= 160 /\ type < 192 ->
              IF Len(body) < type - 160 THEN DecodeFail("BUFFER_SHORTAGE")
              ELSE DecodeOk(VStr(SubSeq(body, 1, type - 160)),
                            BufSliceFrom(body, type - 160))
         [] type = 192 -> DecodeOk(VNil, body)
         [] type = 194 -> DecodeOk(VBool(FALSE), body)
         [] type = 195 -> DecodeOk(VBool(TRUE), body)
         [] type = 204 ->
              IF Len(body) < 1 THEN DecodeFail("BUFFER_SHORTAGE")
              ELSE DecodeOk(VInt(body[1]), BufSliceFrom(body, 1))
         [] type = 205 ->
              IF Len(body) < 2 THEN DecodeFail("BUFFER_SHORTAGE")
              ELSE DecodeOk(VInt(body[1] * 256 + body[2]), BufSliceFrom(body, 2))
         [] type = 206 ->
              IF Len(body) < 4 THEN DecodeFail("BUFFER_SHORTAGE")
              ELSE DecodeOk(VInt(ReadUInt32BE(body, 0)), BufSliceFrom(body, 4))
         [] OTHER -> DecodeFail("Invalid type")

DecodeItems(buf, n, acc) ==
  IF n = 0 THEN DecodeOk(VArr(acc), buf)
  ELSE LET r == DecodeValue(buf)
       IN  IF ~r.ok THEN r ELSE DecodeItems(r.rest, n - 1, Append(acc, r.val))

DecodeEntries(buf, n, acc) ==
  IF n = 0 THEN DecodeOk(VMap(acc), buf)
  ELSE LET k == DecodeValue(buf)
       IN  IF ~k.ok THEN k
           ELSE LET r == DecodeValue(k.rest)
                IN  IF ~r.ok THEN r
                    ELSE DecodeEntries(r.rest, n - 1,
                                       Append(acc, <<KeyOf(k.val), r.val>>))

\* msgpack.decode(buf): the first value of buf; bytes after it are not read
MsgpackDecode(buf) == DecodeValue(buf)

-----------------------------------------------------------------------------
(* zlib: deflateSync / inflateSync *)

RECURSIVE ByteSum(_)
ByteSum(buf) == IF buf = <<>> THEN 0 ELSE Head(buf) + ByteSum(Tail(buf))

\* the stream's trailing check value (stand-in for Adler-32)
ZlibCheck(buf) == ByteSum(buf) % 251

\* zlib.deflateSync(buf): the 2-byte zlib header (0x78 0x9C), the body, the
\* check value.  Stand-in for deflate: the body is stored, not compressed.
DeflateSync(buf) == <<120, 156>> \o buf \o <<ZlibCheck(buf)>>

\* zlib.inflateSync throws on a wrong header, a truncated stream or a wrong
\* check value
InflateThrows(buf) ==
  \/ Len(buf) < 3
  \/ buf[1] # 120
  \/ buf[2] # 156
  \/ buf[Len(buf)] # ZlibCheck(SubSeq(buf, 3, Len(buf) - 1))

\* zlib.inflateSync(buf), when it does not throw
InflateSync(buf) == SubSeq(buf, 3, Len(buf) - 1)

-----------------------------------------------------------------------------
(* class BinaryJSON *)

\* new BinaryJSON(header, metadata, payload)
BinaryJSON(header, metadata, payload) ==
  [header |-> header, metadata |-> metadata, payload |-> payload]

\* null, where a BinaryJSON is expected
NoEnvelope == [null |-> TRUE]
IsNull(e) == "null" \in DOMAIN e

\* fromDict that writes the zlib tag whatever compress is
FromDictTaggedZlib(data, schemaId, compress, now) ==
  LET metadata == VMap(<< <<K_schema_id, VInt(schemaId)>>,
                          <<K_timestamp, VInt(now)>>,
                          <<K_compression, VStr(S_zlib)>> >>)
      encoded == MsgpackEncode(data)
      payload == IF compress THEN DeflateSync(encoded) ELSE encoded
      header == MAGIC_NUMBER \o UInt32Bytes(schemaId)
  IN  BinaryJSON(header, metadata, payload)

\* BinaryJSON.fromDict(data, schemaId, compress), with Date.now() = now;
\* 0 <= schemaId < 2^31
FromDict(data, schemaId, compress, now) ==
  LET metadata == VMap(<< <<K_schema_id, VInt(schemaId)>>,
                          <<K_timestamp, VInt(now)>>,
                          <<K_compression,
                            VStr(IF compress THEN S_zlib ELSE S_none)>> >>)
      encoded == MsgpackEncode(data)
      payload == IF compress THEN DeflateSync(encoded) ELSE encoded
      header == MAGIC_NUMBER \o UInt32Bytes(schemaId)
  IN  BinaryJSON(header, metadata, payload)

RECURSIVE Lookup(_, _)
\* the value of the last entry of a map's entries with this key, or undefined
Lookup(entries, key) ==
  IF entries = <<>> THEN VUndefined
  ELSE IF entries[Len(entries)][1] = key THEN entries[Len(entries)][2]
  ELSE Lookup(SubSeq(entries, 1, Len(entries) - 1), key)

\* value.key: undefined unless value is an object with that property
GetProp(value, key) ==
  IF value.t = "map" THEN Lookup(value.m, key) ELSE VUndefined

\* reading a property of null or undefined throws a TypeError
GetPropThrows(value) == value.t \in {"nil", "undefined"}

Returned(v) == [err |-> "none", value |-> v]
Thrown(e) == [err |-> e, value |-> VUndefined]

\* toDict without the inflate step
ToDictNoInflate(bj) ==
  IF GetPropThrows(bj.metadata) THEN Thrown("TypeError")
  ELSE LET d == MsgpackDecode(bj.payload)
       IN  IF d.ok THEN Returned(d.val) ELSE Thrown("Error")

\* binaryJson.toDict()
ToDict(bj) ==
  IF GetPropThrows(bj.metadata) THEN Thrown("TypeError")
  ELSE LET compressed == GetProp(bj.metadata, K_compression) = VStr(S_zlib)
       IN  IF compressed /\ InflateThrows(bj.payload) THEN Thrown("Error")
           ELSE LET decompressed == IF compressed THEN InflateSync(bj.payload)
                                    ELSE bj.payload
                    d == MsgpackDecode(decompressed)
                IN  IF d.ok THEN Returned(d.val) ELSE Thrown("Error")

-----------------------------------------------------------------------------
(* class DataHandler *)

\* new DataHandler(): mode = 'batch', chunkSize = CHUNK_SIZE
NewDataHandler == [mode |-> "batch", chunkSize |-> CHUNK_SIZE]

RECURSIVE ProcessLoopWholeOnly(_, _, _, _)
\* the loop pushing whole slices only: a short last slice is never pushed
ProcessLoopWholeOnly(data, chunkSize, i, chunks) ==
  IF i < Len(data) /\ i + chunkSize <= Len(data)
  THEN ProcessLoopWholeOnly(data, chunkSize, i + chunkSize,
                            Append(chunks, BufSlice(data, i, i + chunkSize)))
  ELSE chunks

RECURSIVE ProcessLoop(_, _, _, _)
\* for (let i = 0; i < data.length; i += chunkSize)
\*   chunks.push(data.slice(i, i + chunkSize))
ProcessLoop(data, chunkSize, i, chunks) ==
  IF i < Len(data)
  THEN ProcessLoop(data, chunkSize, i + chunkSize,
                   Append(chunks, BufSlice(data, i, i + chunkSize)))
  ELSE chunks

\* the loop never ends when i does not grow and there is something to slice
ProcessDiverges(h, data) ==
  h.mode # "batch" /\ h.chunkSize <= 0 /\ Len(data) > 0

\* handler.process(data): in batch mode the Buffer itself (kind "buffer", its
\* elements are its bytes), otherwise the array of slices (kind "array")
Process(h, data) ==
  IF h.mode = "batch" THEN [kind |-> "buffer", items |-> data]
  ELSE IF ProcessDiverges(h, data) THEN [kind |-> "diverges", items |-> <<>>]
  ELSE [kind |-> "array", items |-> ProcessLoop(data, h.chunkSize, 0, <<>>)]

-----------------------------------------------------------------------------
(* crypto-js: encoders, padding, CBC *)

RECURSIVE BitXor(_, _)
\* a ^ b on non-negative integers
BitXor(a, b) ==
  IF a = 0 THEN b
  ELSE IF b = 0 THEN a
  ELSE ((a + b) % 2) + 2 * BitXor(a \div 2, b \div 2)

\* the character of a 6-bit value in the Base64 alphabet A-Z a-z 0-9 + /
Base64Char(v) ==
  IF v < 26 THEN 65 + v
  ELSE IF v < 52 THEN 97 + (v - 26)
  ELSE IF v < 62 THEN 48 + (v - 52)
  ELSE IF v = 62 THEN 43 ELSE 47

\* the reverse map; a character outside the alphabet reads as undefined,
\* which the shifts of the parse loop turn into 0
Base64Value(c) ==
  IF c >= 65 /\ c <= 90 THEN c - 65
  ELSE IF c >= 97 /\ c <= 122 THEN c - 97 + 26
  ELSE IF c >= 48 /\ c <= 57 THEN c - 48 + 52
  ELSE IF c = 43 THEN 62
  ELSE IF c = 47 THEN 63 ELSE 0

RECURSIVE Base64Stringify(_)
\* CryptoJS.enc.Base64.stringify: 4 characters per 3 bytes, '=' padding
Base64Stringify(buf) ==
  IF buf = <<>> THEN <<>>
  ELSE LET n == Len(buf)
           b1 == buf[1]
           b2 == IF n >= 2 THEN buf[2] ELSE 0
           b3 == IF n >= 3 THEN buf[3] ELSE 0
           c1 == Base64Char(b1 \div 4)
           c2 == Base64Char((b1 % 4) * 16 + b2 \div 16)
           c3 == IF n >= 2 THEN Base64Char((b2 % 16) * 4 + b3 \div 64) ELSE 61
           c4 == IF n >= 3 THEN Base64Char(b3 % 64) ELSE 61
       IN  <<c1, c2, c3, c4>> \o Base64Stringify(BufSliceFrom(buf, 3))

\* the index of the first '=' of str, or its length
RECURSIVE PaddingIndex(_, _)
PaddingIndex(str, i) ==
  IF i > Len(str) THEN Len(str)
  ELSE IF str[i] = 61 THEN i - 1 ELSE PaddingIndex(str, i + 1)

RECURSIVE Base64ParseLoop(_, _, _)
\* parseLoop: every position i (from 0) with i % 4 # 0 gives one byte, made
\* of the low bits of character i - 1 and the high bits of character i
Base64ParseLoop(str, len, i) ==
  IF i >= len THEN <<>>
  ELSE IF i % 4 = 0 THEN Base64ParseLoop(str, len, i + 1)
  ELSE LET m == i % 4
           shl == IF m = 1 THEN 4 ELSE IF m = 2 THEN 16 ELSE 64
           shr == IF m = 1 THEN 16 ELSE IF m = 2 THEN 4 ELSE 1
           byte == ((Base64Value(str[i]) * shl) % 256)
                   + (Base64Value(str[i + 1]) \div shr)
       IN  <<byte>> \o Base64ParseLoop(str, len, i + 1)

\* CryptoJS.enc.Base64.parse(str)
Base64Parse(str) == Base64ParseLoop(str, PaddingIndex(str, 1), 0)

RECURSIVE ValidUtf8(_)
\* whether the bytes are well-formed UTF-8: decodeURIComponent(escape(s))
\* throws 'Malformed UTF-8 data' otherwise
ValidUtf8(buf) ==
  IF buf = <<>> THEN TRUE
  ELSE LET b == buf[1]
           n == Len(buf)
           Cont(k) == k <= n /\ buf[k] >= 128 /\ buf[k] <= 191
       IN  IF b < 128 THEN ValidUtf8(Tail(buf))
           ELSE IF b >= 194 /\ b <= 223
             THEN Cont(2) /\ ValidUtf8(BufSliceFrom(buf, 2))
           ELSE IF b >= 224 /\ b <= 239
             THEN /\ Cont(2) /\ Cont(3)
                  /\ (b = 224 => buf[2] >= 160)
                  /\ (b = 237 => buf[2] <= 159)
                  /\ ValidUtf8(BufSliceFrom(buf, 3))
           ELSE IF b >= 240 /\ b <= 244
             THEN /\ Cont(2) /\ Cont(3) /\ Cont(4)
                  /\ (b = 240 => buf[2] >= 144)
                  /\ (b = 244 => buf[2] <= 143)
                  /\ ValidUtf8(BufSliceFrom(buf, 4))
           ELSE FALSE

\* the cipher's block size in bytes
BlockSize == 16

\* CryptoJS.pad.Pkcs7.pad
Pkcs7Pad(buf) ==
  LET nPaddingBytes == BlockSize - (Len(buf) % BlockSize)
  IN  buf \o [j \in 1..nPaddingBytes |-> nPaddingBytes]

\* CryptoJS.pad.Pkcs7.unpad: sigBytes -= last byte; a count that is not
\* positive leaves nothing to read
Pkcs7Unpad(buf) ==
  IF buf = <<>> THEN <<>>
  ELSE LET sigBytes == Len(buf) - buf[Len(buf)]
       IN  IF sigBytes <= 0 THEN <<>> ELSE SubSeq(buf, 1, sigBytes)

\* byte j of a block, 0 where the word array holds nothing
ByteAt(buf, j) == IF j <= Len(buf) THEN buf[j] ELSE 0

\* the block cipher under key k; stand-in for AES: a keyed permutation of
\* the 16-byte blocks
EncryptBlock(k, block) ==
  [j \in 1..BlockSize |-> (block[j] + k[((j - 1) % Len(k)) + 1] + j) % 256]

DecryptBlock(k, block) ==
  [j \in 1..BlockSize |-> (block[j] + 512 - k[((j - 1) % Len(k)) + 1] - j) % 256]

RECURSIVE CbcEncrypt(_, _, _)
\* CBC encryptor over whole blocks: c_i = E_k(p_i ^ c_{i-1}), c_0 = iv
CbcEncrypt(k, prev, buf) ==
  IF buf = <<>> THEN <<>>
  ELSE LET block == [j \in 1..BlockSize |-> BitXor(buf[j], ByteAt(prev, j))]
           c == EncryptBlock(k, block)
       IN  c \o CbcEncrypt(k, c, BufSliceFrom(buf, BlockSize))

RECURSIVE CbcDecrypt(_, _, _)
\* CBC decryptor with flush: ceil(len / 16) blocks are processed, the last
\* one zero-filled; p_i = D_k(c_i) ^ c_{i-1}
CbcDecrypt(k, prev, buf) ==
  IF buf = <<>> THEN <<>>
  ELSE LET c == [j \in 1..BlockSize |-> ByteAt(buf, j)]
           d == DecryptBlock(k, c)
           pl == [j \in 1..BlockSize |-> BitXor(d[j], ByteAt(prev, j))]
       IN  pl \o CbcDecrypt(k, c, BufSliceFrom(buf, BlockSize))

\* CryptoJS.AES.encrypt(data, key, {iv}).ciphertext
AesEncrypt(data, k, iv) == CbcEncrypt(k, iv, Pkcs7Pad(data))

\* CryptoJS.AES.decrypt(ciphertext, key, {iv}): the processed blocks cut to
\* the ciphertext's length, then unpadded; only the first 16 bytes of iv
\* are used
AesDecrypt(ciphertext, k, iv) ==
  Pkcs7Unpad(SubSeq(CbcDecrypt(k, iv, ciphertext), 1, Len(ciphertext)))

-----------------------------------------------------------------------------
(* class SecurityManager *)

\* securityManager.encrypt(data) with the random iv drawn
Encrypt(key, data, iv) ==
  Returned(BufferConcat(<< iv, Base64Stringify(AesEncrypt(data, key, iv)) >>))

\* securityManager.decrypt(data)
Decrypt(key, data) ==
  LET iv == BufSlice(data, 0, 32)
      encrypted == BufSliceFrom(data, 32)
      decrypted == AesDecrypt(Base64Parse(encrypted), key, iv)
  IN  IF ValidUtf8(decrypted) THEN Returned(decrypted)
      ELSE Thrown("SecurityError")

\* CryptoJS.HmacSHA256(data, key): a 32-byte digest of key and data.  Stand-in
\* for the hash: each digest byte mixes the key's and the data's sums and
\* lengths with its position.
HmacSHA256(data, key) ==
  [j \in 1..32 |->
     (ByteSum(key) * j + ByteSum(data) + 7 * Len(key) + 13 * Len(data) * j) % 256]

\* one hexadecimal digit as a character code
HexChar(n) == IF n < 10 THEN 48 + n ELSE 87 + n

\* WordArray.toString(): two lowercase hexadecimal digits per byte
RECURSIVE HexStringify(_)
HexStringify(buf) ==
  IF buf = <<>> THEN <<>>
  ELSE <<HexChar(Head(buf) \div 16), HexChar(Head(buf) % 16)>>
       \o HexStringify(Tail(buf))

\* securityManager.sign(data)
Sign(key, data) == HexStringify(HmacSHA256(data, key))

-----------------------------------------------------------------------------
(* class SchemaValidator, for the example schema: an object whose id is an   *)
(* integer and whose name is a string, both required; age, when present, an  *)
(* integer >= 0                                                              *)

\* this.validateFn(data)
ValidateFn(data) ==
  /\ data.t = "map"
  /\ GetProp(data, K_id).t = "int"
  /\ GetProp(data, K_name).t = "str"
  /\ LET age == GetProp(data, K_age)
     IN  age.t = "undefined" \/ (age.t = "int" /\ age.i >= 0)

\* validator.validate(data) throws SchemaError when validateFn rejects
ValidateThrows(data) == ~ValidateFn(data)

-----------------------------------------------------------------------------
(* class BinJSON *)

\* serialize with the validation after the envelope is built and sealed
SerializeCallsValidateLast(hasValidator, data, encrypt) ==
  <<"fromDict">>
  \o (IF encrypt THEN <<"encrypt">> ELSE <<>>)
  \o (IF hasValidator THEN <<"validate">> ELSE <<>>)

\* the calls serialize makes, in order: validate (when a validator is set),
\* which ends the call when it throws; fromDict; encrypt (when asked)
SerializeCalls(hasValidator, data, encrypt) ==
  IF hasValidator /\ ValidateThrows(data) THEN <<"validate">>
  ELSE (IF hasValidator THEN <<"validate">> ELSE <<>>)
       \o <<"fromDict">>
       \o (IF encrypt THEN <<"encrypt">> ELSE <<>>)

\* whether call name c is among calls
Called(calls, c) == \E i \in 1..Len(calls) : calls[i] = c

\* serialize whose encryption step builds the envelope anew around the sealed
\* payload, one clock tick later
SerializeResultRebuilt(hasValidator, key, data, schemaId, compress, encrypt, now, iv) ==
  LET calls == SerializeCalls(hasValidator, data, encrypt)
      binaryJson == FromDict(data, schemaId, compress, now)
      sealed == Encrypt(key, binaryJson.payload, iv)
  IN  IF ~Called(calls, "fromDict")
      THEN [err |-> "SchemaError", value |-> NoEnvelope, calls |-> calls]
      ELSE IF Called(calls, "encrypt")
      THEN [err |-> "none",
            value |-> BinaryJSON(binaryJson.header,
                                 FromDict(data, schemaId, compress, now + 1).metadata,
                                 sealed.value),
            calls |-> calls]
      ELSE [err |-> "none", value |-> binaryJson, calls |-> calls]

\* binjson.serialize(data, schemaId, compress, encrypt): the error thrown
\* and the BinaryJSON returned
SerializeResult(hasValidator, key, data, schemaId, compress, encrypt, now, iv) ==
  LET calls == SerializeCalls(hasValidator, data, encrypt)
      binaryJson == FromDict(data, schemaId, compress, now)
      sealed == Encrypt(key, binaryJson.payload, iv)
  IN  IF ~Called(calls, "fromDict")
      THEN [err |-> "SchemaError", value |-> NoEnvelope, calls |-> calls]
      ELSE IF Called(calls, "encrypt")
      THEN [err |-> "none",
            value |-> [binaryJson EXCEPT !.payload = sealed.value],
            calls |-> calls]
      ELSE [err |-> "none", value |-> binaryJson, calls |-> calls]

\* binjson.deserialize(binaryJson, decrypt): the error thrown or the value
\* returned, and binaryJson afterwards (decrypt assigns its payload)
DeserializeResult(key, binaryJson, decrypt) ==
  LET opened == Decrypt(key, binaryJson.payload)
      after == IF decrypt /\ opened.err = "none"
               THEN [binaryJson EXCEPT !.payload = opened.value]
               ELSE binaryJson
  IN  IF decrypt /\ opened.err # "none"
      THEN [ret |-> Thrown(opened.err), after |-> after]
      ELSE [ret |-> ToDict(after), after |-> after]

-----------------------------------------------------------------------------
(* class BinJSONWebSocket *)

\* the serialized form send builds
Serialized(binaryJSON) ==
  BufferConcat(<< binaryJSON.header,
                  MsgpackEncode(binaryJSON.metadata),
                  binaryJSON.payload >>)

\* what ws.send(item) puts on the channel, as the bytes Buffer.from(event.data)
\* gives the receiver: a Buffer goes out as it is, a number (an element of a
\* Buffer) as the text of its decimal digits
WsSend(kind, item) == IF kind = "array" THEN item ELSE DecDigits(item)

\* the chunks sent last to first
ForEachSendReversed(chunks) ==
  [j \in 1..Len(chunks.items) |->
     WsSend(chunks.kind, chunks.items[Len(chunks.items) + 1 - j])]

\* chunks.forEach((chunk) => this.ws.send(chunk))
ForEachSend(chunks) ==
  [j \in 1..Len(chunks.items) |-> WsSend(chunks.kind, chunks.items[j])]

\* send without the readyState check
SendThrowsNever(readyState) == FALSE

\* whether send throws NetworkError: ws.readyState !== WebSocket.OPEN
SendThrows(readyState) == readyState # "OPEN"

\* the messages one send call emits
SendMessages(h, binaryJSON) == ForEachSend(Process(h, Serialized(binaryJSON)))

\* ws.onmessage: the chunk is pushed; the first chunk is parsed as header,
\* metadata length and metadata, a later chunk is appended to the payload.
\* Gives chunkBuffer and currentBinaryJSON afterwards and the error thrown.
OnMessage(buffer, current, chunk) ==
  LET pushed == Append(buffer, chunk)
      first == pushed[1]
      header == BufSlice(first, 0, 6)
      metadataLength == ReadUInt32BE(first, 6)
      decoded == MsgpackDecode(BufSlice(first, 6, 6 + metadataLength))
  IN  IF Len(pushed) = 1
      THEN IF ReadUInt32BEThrows(first, 6)
           THEN [chunkBuffer |-> pushed, current |-> current, err |-> "RangeError"]
           ELSE IF ~decoded.ok
           THEN [chunkBuffer |-> pushed, current |-> current, err |-> "Error"]
           ELSE [chunkBuffer |-> pushed,
                 current |-> BinaryJSON(header, decoded.val,
                               BufSliceFrom(BufferConcat(pushed), 6 + metadataLength)),
                 err |-> "none"]
      ELSE IF IsNull(current)
           THEN [chunkBuffer |-> pushed, current |-> current, err |-> "TypeError"]
           ELSE [chunkBuffer |-> pushed,
                 current |-> [current EXCEPT
                                !.payload = BufferConcat(<<current.payload, chunk>>)],
                 err |-> "none"]

\* getReceivedData without the null check: deserialize(null) throws a
\* TypeError at null.toDict()
GetReceivedDataUnchecked(key, current) ==
  IF IsNull(current) THEN [ret |-> Thrown("TypeError"), after |-> current]
  ELSE DeserializeResult(key, current, FALSE)

\* getReceivedData that asks deserialize to decrypt
GetReceivedDataDecrypting(key, current) ==
  IF IsNull(current) THEN [ret |-> Thrown("BinJSONError"), after |-> current]
  ELSE DeserializeResult(key, current, TRUE)

\* wsClient.getReceivedData()
GetReceivedDataResult(key, current) ==
  IF IsNull(current) THEN [ret |-> Thrown("BinJSONError"), after |-> current]
  ELSE DeserializeResult(key, current, FALSE)

-----------------------------------------------------------------------------
(* saveToFile, loadFromFile *)

\* the buffer saveToFile writes: header, encoded metadata, payload
SaveToFileBuffer(binaryJson) ==
  BufferConcat(<< binaryJson.header,
                  MsgpackEncode(binaryJson.metadata),
                  binaryJson.payload >>)

\* loadFromFile on a file holding data: the error thrown or the BinaryJSON
\* returned
LoadFromFileResult(data) ==
  LET header == BufSlice(data, 0, 6)
      metadataLength == ReadUInt32BE(data, 6)
      decoded == MsgpackDecode(BufSlice(data, 6, 6 + metadataLength))
  IN  IF ReadUInt32BEThrows(data, 6) THEN [err |-> "RangeError", value |-> NoEnvelope]
      ELSE IF ~decoded.ok THEN [err |-> "Error", value |-> NoEnvelope]
      ELSE [err |-> "none",
            value |-> BinaryJSON(header, decoded.val,
                                 BufSliceFrom(data, 6 + metadataLength))]

-----------------------------------------------------------------------------
(* Inputs *)

\* the values given to serialize and fromDict
Values ==
  << VMap(<< <<K_id, VInt(1)>>, <<K_name, VStr(S_Alice)>> >>),
     VMap(<< <<K_id, VInt(2)>> >>),
     VMap(<< <<K_id, VInt(2)>>, <<K_name, VStr(S_Bob)>>, <<K_age, VInt(25)>> >>),
     VMap(<< <<K_id, VStr(S_Bob)>>, <<K_name, VStr(S_Bob)>> >>),
     VStr(S_Alice),
     VInt(7),
     VInt(300),
     VInt(70000),
     VNil,
     VBool(TRUE),
     VArr(<< VInt(1), VStr(S_Bob), VBool(FALSE) >>),
     VMap(<<>>),
     VMap(<< <<K_name, VMap(<< <<K_id, VInt(200)>> >>)>> >>) >>

\* the values of Date.now()
Clocks == {5, 1700000000}
MainClock == 1700000000

\* schema ids
SchemaIds == {DEFAULT_SCHEMA_ID, 258, 16909060}

\* the keys a SecurityManager is built with, as the bytes of the key string
Keys == << <<109, 121, 95, 51, 50, 98, 121, 116, 101>>, <<107, 50>> >>

\* the values CryptoJS.lib.WordArray.random(16) gives
Ivs == << [j \in 1..16 |-> j], [j \in 1..16 |-> 209 - 16 * (j % 3)] >>

\* the byte sequences of length 0 .. n over two bytes, one of them not ASCII
DataBytes == {65, 200}
ByteSeqs(n) == UNION {[1..k -> DataBytes] : k \in 0..n}

\* the concatenation of the streaming scenario
ScenarioData == [j \in 1..ScenarioLen |-> j % 256]

\* longer plaintexts: one and two cipher blocks and more
LongData ==
  { <<104, 101, 108, 108, 111>>,
    [j \in 1..15 |-> 96 + j],
    [j \in 1..16 |-> 96 + j],
    [j \in 1..21 |-> 64 + j],
    MsgpackEncode(Values[1]),
    DeflateSync(MsgpackEncode(Values[1])) }

\* the channels: two BinJSONWebSocket objects made by createWebSocket on one
\* BinJSON, each the other's peer
Chans == {1, 2}
Peer(c) == 3 - c

-----------------------------------------------------------------------------
(* State after construction *)

\* new BinJSON(schema, securityKey)
BinJSONInit(hasSchema, key) ==
  /\ handler = NewDataHandler
  /\ validator = hasSchema
  /\ security = [key |-> key]
  /\ envelope = NoEnvelope
  /\ result = [op |-> "new"]

\* new BinJSONWebSocket(url, binjson), for every channel
ChannelsInit ==
  /\ wsState = [c \in Chans |-> "CONNECTING"]
  /\ chunkBuffer = [c \in Chans |-> <<>>]
  /\ currentBinaryJSON = [c \in Chans |-> NoEnvelope]
  /\ inbox = [c \in Chans |-> <<>>]
  /\ sent = <<>>

\* no file has been written
NoFile == [missing |-> TRUE]
FilesInit == file = NoFile

orchestratorVars == <<handler, validator, security, envelope>>
channelVars == <<wsState, chunkBuffer, currentBinaryJSON, inbox, sent>>

-----------------------------------------------------------------------------
(* Operations *)

\* binjson.setHandlerMode(mode, chunkSize)
SetHandlerMode(mode, chunkSize) ==
  /\ handler' = [mode |-> mode, chunkSize |-> chunkSize]
  /\ result' = [op |-> "setHandlerMode"]
  /\ UNCHANGED <<validator, security, envelope>>
  /\ UNCHANGED channelVars
  /\ UNCHANGED file

\* binjson.handler.process(data)
ProcessCall(data) ==
  /\ result' = [op |-> "process", data |-> data, mode |-> handler.mode,
                chunkSize |-> handler.chunkSize, ret |-> Process(handler, data)]
  /\ UNCHANGED orchestratorVars
  /\ UNCHANGED channelVars
  /\ UNCHANGED file

\* BinaryJSON.fromDict(data, schemaId, compress)
FromDictCall(data, schemaId, compress, now) ==
  /\ envelope' = FromDict(data, schemaId, compress, now)
  /\ result' = [op |-> "fromDict", data |-> data, schemaId |-> schemaId,
                compress |-> compress]
  /\ UNCHANGED <<handler, validator, security>>
  /\ UNCHANGED channelVars
  /\ UNCHANGED file

\* envelope.toDict(), on the envelope fromDict built from result.data
ToDictCall ==
  /\ result.op \in {"fromDict", "toDict"}
  /\ result' = [op |-> "toDict", data |-> result.data,
                schemaId |-> result.schemaId, compress |-> result.compress,
                ret |-> ToDict(envelope)]
  /\ UNCHANGED orchestratorVars
  /\ UNCHANGED channelVars
  /\ UNCHANGED file

\* new BinaryJSON(header, metadata, payload) by a caller: the header and the
\* schema_id and timestamp of fromDict, any compression entry, any payload
ConstructCall(compression, payload) ==
  /\ envelope' = BinaryJSON(MAGIC_NUMBER \o UInt32Bytes(DEFAULT_SCHEMA_ID),
                            VMap(<< <<K_schema_id, VInt(DEFAULT_SCHEMA_ID)>>,
                                    <<K_timestamp, VInt(5)>> >>
                                 \o compression),
                            payload)
  /\ result' = [op |-> "construct", compression |-> compression,
                payload |-> payload]
  /\ UNCHANGED <<handler, validator, security>>
  /\ UNCHANGED channelVars
  /\ UNCHANGED file

\* envelope.toDict(), on the envelope the caller constructed
ToDictConstructedCall ==
  /\ result.op = "construct"
  /\ result' = [op |-> "toDictConstructed", compression |-> result.compression,
                payload |-> result.payload, ret |-> ToDict(envelope)]
  /\ UNCHANGED orchestratorVars
  /\ UNCHANGED channelVars
  /\ UNCHANGED file

\* encrypt that stores the key it derived for the cipher as the manager's key
EncryptCallRekeys(data, iv) ==
  /\ result' = [op |-> "encrypt", data |-> data, iv |-> iv,
                ret |-> Encrypt(security.key, data, iv)]
  /\ security' = [security EXCEPT !.key = HexStringify(@)]
  /\ UNCHANGED <<handler, validator, envelope>>
  /\ UNCHANGED channelVars
  /\ UNCHANGED file

\* binjson.security.encrypt(data)
EncryptCall(data, iv) ==
  /\ result' = [op |-> "encrypt", data |-> data, iv |-> iv,
                ret |-> Encrypt(security.key, data, iv)]
  /\ UNCHANGED orchestratorVars
  /\ UNCHANGED channelVars
  /\ UNCHANGED file

\* new SecurityManager(key).decrypt(sealed), on what encrypt just returned;
\* key is the encrypting manager's key or another one
DecryptCall(key) ==
  /\ result.op = "encrypt"
  /\ result.ret.err = "none"
  /\ result' = [op |-> "decrypt", data |-> result.data, iv |-> result.iv,
                sealed |-> result.ret.value, key |-> key,
                ret |-> Decrypt(key, result.ret.value)]
  /\ UNCHANGED orchestratorVars
  /\ UNCHANGED channelVars
  /\ UNCHANGED file

\* binjson.security.decrypt(data), on bytes the caller brings
DecryptBytesCall(data) ==
  /\ result' = [op |-> "decryptBytes", sealed |-> data,
                ret |-> Decrypt(security.key, data)]
  /\ UNCHANGED orchestratorVars
  /\ UNCHANGED channelVars
  /\ UNCHANGED file

\* binjson.security.sign(data)
SignCall(data) ==
  /\ result' = [op |-> "sign", data |-> data, ret |-> Sign(security.key, data)]
  /\ UNCHANGED orchestratorVars
  /\ UNCHANGED channelVars
  /\ UNCHANGED file

\* binjson.serialize(data, schemaId, compress, encrypt)
SerializeCall(data, schemaId, compress, encrypt, now, iv) ==
  LET r == SerializeResult(validator, security.key, data, schemaId, compress,
                           encrypt, now, iv)
  IN  /\ result' = [op |-> "serialize", data |-> data, compress |-> compress,
                    encrypt |-> encrypt, err |-> r.err, calls |-> r.calls,
                    ret |-> r.value]
      /\ envelope' = IF r.err = "none" THEN r.value ELSE envelope
      /\ UNCHANGED <<handler, validator, security>>
      /\ UNCHANGED channelVars
      /\ UNCHANGED file

\* binjson.deserialize(envelope, decrypt), on the envelope serialize returned
\* for result.data
DeserializeCall(decrypt) ==
  /\ \/ result.op = "serialize" /\ result.err = "none"
     \/ result.op = "deserialize"
  /\ LET r == DeserializeResult(security.key, envelope, decrypt)
     IN  /\ result' = [op |-> "deserialize", data |-> result.data,
                       compress |-> result.compress, encrypt |-> result.encrypt,
                       decrypt |-> decrypt, before |-> envelope,
                       first |-> result.op = "serialize",
                       err |-> r.ret.err, ret |-> r.ret.value]
         /\ envelope' = r.after
  /\ UNCHANGED <<handler, validator, security>>
  /\ UNCHANGED channelVars
  /\ UNCHANGED file

\* saveToFile(envelope, filepath)
SaveToFile ==
  /\ ~IsNull(envelope)
  /\ file' = SaveToFileBuffer(envelope)
  /\ result' = [op |-> "saveToFile", saved |-> envelope]
  /\ UNCHANGED orchestratorVars
  /\ UNCHANGED channelVars

\* another program writes the file
WriteFile(bytes) ==
  /\ file' = bytes
  /\ result' = [op |-> "writeFile"]
  /\ UNCHANGED orchestratorVars
  /\ UNCHANGED channelVars

\* loadFromFile(filepath); readFileSync throws when there is no file
LoadFromFile ==
  /\ LET r == IF file = NoFile THEN [err |-> "ENOENT", value |-> NoEnvelope]
              ELSE LoadFromFileResult(file)
     IN  result' = [op |-> "loadFromFile", err |-> r.err, ret |-> r.value]
  /\ UNCHANGED orchestratorVars
  /\ UNCHANGED channelVars
  /\ UNCHANGED file

\* the transport opens channel c (ws.onopen logs)
Open(c) ==
  /\ wsState[c] = "CONNECTING"
  /\ wsState' = [wsState EXCEPT ![c] = "OPEN"]
  /\ result' = [op |-> "onopen", chan |-> c]
  /\ UNCHANGED orchestratorVars
  /\ UNCHANGED <<chunkBuffer, currentBinaryJSON, inbox, sent>>
  /\ UNCHANGED file

\* the transport closes channel c (ws.onclose logs)
Close(c) ==
  /\ wsState[c] # "CLOSED"
  /\ wsState' = [wsState EXCEPT ![c] = "CLOSED"]
  /\ result' = [op |-> "onclose", chan |-> c]
  /\ UNCHANGED orchestratorVars
  /\ UNCHANGED <<chunkBuffer, currentBinaryJSON, inbox, sent>>
  /\ UNCHANGED file

\* send whose chunks overtake the messages already on the channel
SendOvertaking(c, max) ==
  /\ ~IsNull(envelope)
  /\ IF SendThrows(wsState[c])
     THEN /\ result' = [op |-> "send", chan |-> c, err |-> "NetworkError",
                        emitted |-> <<>>]
          /\ UNCHANGED <<inbox, sent>>
     ELSE IF ProcessDiverges(handler, Serialized(envelope))
     THEN /\ result' = [op |-> "send", chan |-> c, err |-> "diverges",
                        emitted |-> <<>>]
          /\ UNCHANGED <<inbox, sent>>
     ELSE LET msgs == SendMessages(handler, envelope)
          IN  /\ Len(sent) < max
              /\ result' = [op |-> "send", chan |-> c, err |-> "none",
                            emitted |-> msgs]
              /\ inbox' = [inbox EXCEPT ![Peer(c)] =
                             IF @ = <<>> THEN msgs
                             ELSE <<Head(msgs)>> \o @ \o Tail(msgs)]
              /\ sent' = Append(sent, [chan |-> c, envelope |-> envelope,
                                       mode |-> handler.mode,
                                       chunkSize |-> handler.chunkSize,
                                       count |-> Len(msgs)])
  /\ UNCHANGED orchestratorVars
  /\ UNCHANGED <<wsState, chunkBuffer, currentBinaryJSON>>
  /\ UNCHANGED file

\* channel c's send(envelope); at most max sends reach the channel in a run
Send(c, max) ==
  /\ ~IsNull(envelope)
  /\ IF SendThrows(wsState[c])
     THEN /\ result' = [op |-> "send", chan |-> c, err |-> "NetworkError",
                        emitted |-> <<>>]
          /\ UNCHANGED <<inbox, sent>>
     ELSE IF ProcessDiverges(handler, Serialized(envelope))
     THEN /\ result' = [op |-> "send", chan |-> c, err |-> "diverges",
                        emitted |-> <<>>]
          /\ UNCHANGED <<inbox, sent>>
     ELSE LET msgs == SendMessages(handler, envelope)
          IN  /\ Len(sent) < max
              /\ result' = [op |-> "send", chan |-> c, err |-> "none",
                            emitted |-> msgs]
              /\ inbox' = [inbox EXCEPT ![Peer(c)] = @ \o msgs]
              /\ sent' = Append(sent, [chan |-> c, envelope |-> envelope,
                                       mode |-> handler.mode,
                                       chunkSize |-> handler.chunkSize,
                                       count |-> Len(msgs)])
  /\ UNCHANGED orchestratorVars
  /\ UNCHANGED <<wsState, chunkBuffer, currentBinaryJSON>>
  /\ UNCHANGED file

\* onmessage with one chunkBuffer and one currentBinaryJSON for all channels
DeliverShared(c) ==
  /\ wsState[c] = "OPEN"
  /\ inbox[c] # <<>>
  /\ LET r == OnMessage(chunkBuffer[c], currentBinaryJSON[c], Head(inbox[c]))
     IN  /\ chunkBuffer' = [d \in Chans |-> r.chunkBuffer]
         /\ currentBinaryJSON' = [d \in Chans |-> r.current]
         /\ result' = [op |-> "onmessage", chan |-> c, err |-> r.err]
  /\ inbox' = [inbox EXCEPT ![c] = Tail(@)]
  /\ UNCHANGED orchestratorVars
  /\ UNCHANGED <<wsState, sent>>
  /\ UNCHANGED file

\* the transport hands the next message for channel c to ws.onmessage
Deliver(c) ==
  /\ wsState[c] = "OPEN"
  /\ inbox[c] # <<>>
  /\ LET r == OnMessage(chunkBuffer[c], currentBinaryJSON[c], Head(inbox[c]))
     IN  /\ chunkBuffer' = [chunkBuffer EXCEPT ![c] = r.chunkBuffer]
         /\ currentBinaryJSON' = [currentBinaryJSON EXCEPT ![c] = r.current]
         /\ result' = [op |-> "onmessage", chan |-> c, err |-> r.err]
  /\ inbox' = [inbox EXCEPT ![c] = Tail(@)]
  /\ UNCHANGED orchestratorVars
  /\ UNCHANGED <<wsState, sent>>
  /\ UNCHANGED file

\* a peer that is not this program puts a binary message on channel c
Inbound(c, bytes) ==
  /\ wsState[c] = "OPEN"
  /\ Len(inbox[c]) + Len(chunkBuffer[c]) < MaxInbound
  /\ inbox' = [inbox EXCEPT ![c] = Append(@, bytes)]
  /\ UNCHANGED orchestratorVars
  /\ UNCHANGED <<result, wsState, chunkBuffer, currentBinaryJSON, sent>>
  /\ UNCHANGED file

\* the transport hands the k-th waiting message for channel c to ws.onmessage,
\* ahead of the ones sent before it
DeliverAt(c, k) ==
  /\ wsState[c] = "OPEN"
  /\ k \in 1..Len(inbox[c])
  /\ LET r == OnMessage(chunkBuffer[c], currentBinaryJSON[c], inbox[c][k])
     IN  /\ chunkBuffer' = [chunkBuffer EXCEPT ![c] = r.chunkBuffer]
         /\ currentBinaryJSON' = [currentBinaryJSON EXCEPT ![c] = r.current]
         /\ result' = [op |-> "onmessage", chan |-> c, err |-> r.err]
  /\ inbox' = [inbox EXCEPT ![c] = SubSeq(@, 1, k - 1) \o SubSeq(@, k + 1, Len(@))]
  /\ UNCHANGED orchestratorVars
  /\ UNCHANGED <<wsState, sent>>
  /\ UNCHANGED file

\* channel c's getReceivedData()
GetReceivedData(c) ==
  /\ LET r == GetReceivedDataResult(security.key, currentBinaryJSON[c])
     IN  /\ result' = [op |-> "getReceivedData", chan |-> c, err |-> r.ret.err,
                       ret |-> r.ret.value]
         /\ currentBinaryJSON' = [currentBinaryJSON EXCEPT ![c] = r.after]
  /\ UNCHANGED orchestratorVars
  /\ UNCHANGED <<wsState, chunkBuffer, inbox, sent>>
  /\ UNCHANGED file

-----------------------------------------------------------------------------
(* Specifications *)

Modes == {"batch", "stream"}

\* chunk sizes given to setHandlerMode in the chunker specification
ChunkSizes == (-1 .. MaxChunkSize) \cup {ExampleChunkSize, CHUNK_SIZE}

\* the chunker alone: setHandlerMode and process; the long scenario input is
\* processed with the example's chunk size or more
InitChunker == BinJSONInit(FALSE, Keys[1]) /\ ChannelsInit /\ FilesInit

NextChunker ==
  \/ \E mode \in Modes, n \in ChunkSizes : SetHandlerMode(mode, n)
  \/ \E data \in ByteSeqs(MaxDataLen) : ProcessCall(data)
  \/ handler.chunkSize >= ExampleChunkSize /\ ProcessCall(ScenarioData)

SpecChunker == InitChunker /\ [][NextChunker]_vars

\* the codec alone: fromDict and toDict
InitCodec == BinJSONInit(FALSE, Keys[1]) /\ ChannelsInit /\ FilesInit

NextCodec ==
  \/ \E i \in DOMAIN Values, s \in SchemaIds, compress \in BOOLEAN, now \in Clocks :
       FromDictCall(Values[i], s, compress, now)
  \/ ToDictCall

SpecCodec == InitCodec /\ [][NextCodec]_vars

\* envelopes a caller constructs: the compression entry is any of these, or
\* absent, and the payload an encoded value, deflated or not
Compressions ==
  {<<>>} \cup {<< <<K_compression, VStr(tag)>> >> : tag \in {S_zlib, S_none, S_gzip, S_ZLIB}}
    \cup {<< <<K_compression, VInt(1)>> >>}

Payloads ==
  {MsgpackEncode(Values[i]) : i \in DOMAIN Values}
    \cup {DeflateSync(MsgpackEncode(Values[i])) : i \in DOMAIN Values}

InitEnvelope == BinJSONInit(FALSE, Keys[1]) /\ ChannelsInit /\ FilesInit

NextEnvelope ==
  \/ \E compression \in Compressions, payload \in Payloads :
       ConstructCall(compression, payload)
  \/ ToDictConstructedCall

SpecEnvelope == InitEnvelope /\ [][NextEnvelope]_vars

\* files other programs write: an envelope in the layout saveToFile writes,
\* with this magic, this schema id in the header and that one in the
\* metadata; the same with a 4-byte metadata length after the header; and
\* files cut short
ForeignMetadata(metaId) ==
  MsgpackEncode(VMap(<< <<K_schema_id, VInt(metaId)>>,
                        <<K_timestamp, VInt(5)>>,
                        <<K_compression, VStr(S_none)>> >>))

ForeignFile(magic, headerId, metaId, withLength) ==
  magic \o UInt32Bytes(headerId)
    \o (IF withLength THEN UInt32Bytes(Len(ForeignMetadata(metaId))) ELSE <<>>)
    \o ForeignMetadata(metaId) \o MsgpackEncode(Values[1])

ForeignFiles ==
  {ForeignFile(magic, headerId, metaId, withLength) :
     magic \in {MAGIC_NUMBER, <<88, 74>>},
     headerId \in {DEFAULT_SCHEMA_ID, 258},
     metaId \in {DEFAULT_SCHEMA_ID},
     withLength \in BOOLEAN}
  \cup {<<>>, MAGIC_NUMBER, BufSlice(ForeignFile(MAGIC_NUMBER, 1, 1, FALSE), 0, 20)}

\* the file functions: serialize, saveToFile, loadFromFile, and files written
\* by other programs
InitFile == BinJSONInit(TRUE, Keys[1]) /\ ChannelsInit /\ FilesInit

NextFile ==
  \/ \E i \in DOMAIN Values, compress \in BOOLEAN, encrypt \in BOOLEAN :
       SerializeCall(Values[i], DEFAULT_SCHEMA_ID, compress, encrypt,
                     MainClock, Ivs[1])
  \/ SaveToFile
  \/ \E bytes \in ForeignFiles : WriteFile(bytes)
  \/ LoadFromFile

SpecFile == InitFile /\ [][NextFile]_vars

\* the SecurityManager alone: encrypt and decrypt
InitSecurity == \E k \in DOMAIN Keys : BinJSONInit(FALSE, Keys[k]) /\ ChannelsInit /\ FilesInit

NextSecurity ==
  \/ \E data \in ByteSeqs(MaxDataLen) \cup LongData, i \in DOMAIN Ivs :
       EncryptCall(data, Ivs[i])
  \/ \E k \in DOMAIN Keys : DecryptCall(Keys[k])
  \/ \E data \in ByteSeqs(MaxDataLen) \cup LongData : DecryptBytesCall(data)

SpecSecurity == InitSecurity /\ [][NextSecurity]_vars

\* the orchestrator alone, with and without a schema: serialize, deserialize
InitOrchestrator ==
  (\E hasSchema \in BOOLEAN : BinJSONInit(hasSchema, Keys[1])) /\ ChannelsInit /\ FilesInit

NextOrchestrator ==
  \/ \E i \in DOMAIN Values, compress \in BOOLEAN, encrypt \in BOOLEAN,
        j \in DOMAIN Ivs :
       SerializeCall(Values[i], DEFAULT_SCHEMA_ID, compress, encrypt,
                     MainClock, Ivs[j])
  \/ \E decrypt \in BOOLEAN : DeserializeCall(decrypt)

SpecOrchestrator == InitOrchestrator /\ [][NextOrchestrator]_vars

\* what the channel specifications serialize: the example's value, compressed,
\* sealed or not
SerializeForChannel ==
  \E encrypt \in BOOLEAN :
    SerializeCall(Values[1], DEFAULT_SCHEMA_ID, TRUE, encrypt, MainClock, Ivs[1])

\* the send path: one BinJSON with the example schema, channel 1 sending in
\* every handler mode; nothing is delivered
SendHandlers ==
  {[mode |-> "batch", chunkSize |-> CHUNK_SIZE]}
  \cup {[mode |-> "stream", chunkSize |-> n] : n \in {0, 16, CHUNK_SIZE}}

InitSend == BinJSONInit(TRUE, Keys[1]) /\ ChannelsInit /\ FilesInit

NextSend ==
  \/ SerializeForChannel
  \/ \E h \in SendHandlers : SetHandlerMode(h.mode, h.chunkSize)
  \/ Open(1)
  \/ Close(1)
  \/ Send(1, MaxSends)

SpecSend == InitSend /\ [][NextSend]_vars

\* the receive path: channel 1 sends in stream mode, channel 2 reassembles.
\* Chunk sizes: below the 10 bytes of header and length field (8), below the
\* end of the metadata (16), exactly the end of the metadata (50), beyond it
\* (64), the whole envelope in one chunk (CHUNK_SIZE).
StreamSizes == {8, 16, 50, 64, CHUNK_SIZE}

Init == BinJSONInit(TRUE, Keys[1]) /\ ChannelsInit /\ FilesInit

Next ==
  \/ SerializeForChannel
  \/ \E n \in StreamSizes : SetHandlerMode("stream", n)
  \/ \E c \in Chans : Open(c)
  \/ \E c \in Chans : Close(c)
  \/ handler.mode = "stream" /\ Send(1, MaxStreams)
  \/ Deliver(2)
  \/ GetReceivedData(2)

Spec == Init /\ [][Next]_vars

\* reading on the receive path: channel 1 streams in chunks too short to hold
\* the length field (8), too short to hold the metadata (16), or holding the
\* whole envelope (CHUNK_SIZE); channel 2 reassembles and is read at any time
ReadSizes == {8, 16, CHUNK_SIZE}

InitRead == BinJSONInit(TRUE, Keys[1]) /\ ChannelsInit /\ FilesInit

NextRead ==
  \/ SerializeForChannel
  \/ \E n \in ReadSizes : SetHandlerMode("stream", n)
  \/ \E c \in Chans : Open(c)
  \/ handler.mode = "stream" /\ Send(1, MaxStreams)
  \/ Deliver(2)
  \/ GetReceivedData(2)

SpecRead == InitRead /\ [][NextRead]_vars

\* several streams on one channel: channel 1 sends envelopes one after the
\* other, in two chunks (64) or in one (CHUNK_SIZE); channel 2 reassembles
ResendSizes == {64, CHUNK_SIZE}

NextResend ==
  \/ SerializeForChannel
  \/ \E n \in ResendSizes : SetHandlerMode("stream", n)
  \/ \E c \in Chans : Open(c)
  \/ handler.mode = "stream" /\ Send(1, MaxSends)
  \/ Deliver(2)

SpecResend == InitRead /\ [][NextResend]_vars

\* a transport that reorders: channel 1 streams one envelope in two or three
\* chunks, channel 2 is handed them in any order
ReorderSizes == {50, 64}

NextReorder ==
  \/ SerializeForChannel
  \/ \E n \in ReorderSizes : SetHandlerMode("stream", n)
  \/ \E c \in Chans : Open(c)
  \/ handler.mode = "stream" /\ Send(1, MaxStreams)
  \/ \E k \in 1..3 : DeliverAt(2, k)

SpecReorder == InitRead /\ [][NextReorder]_vars

\* messages of foreign peers: an envelope in the layout send writes and one
\* in the layout onmessage reads (4-byte metadata length after the header),
\* each with the magic number and with other bytes in its place; short ones
ForeignStreams ==
  {ForeignFile(magic, DEFAULT_SCHEMA_ID, DEFAULT_SCHEMA_ID, withLength) :
     magic \in {MAGIC_NUMBER, <<88, 74>>}, withLength \in BOOLEAN}
  \cup {<<>>, <<88, 74>>, <<7, 8, 9>>}

\* a channel fed by a foreign peer
NextInbound ==
  \/ \E c \in Chans : Open(c)
  \/ \E bytes \in ForeignStreams : Inbound(2, bytes)
  \/ Deliver(2)
  \/ GetReceivedData(2)

SpecInbound == InitRead /\ [][NextInbound]_vars

\* two channels created by one BinJSON, each fed by its own peer: a first
\* chunk in the layout onmessage reads, a continuation chunk, an empty message
IsolationStreams ==
  {ForeignFile(MAGIC_NUMBER, DEFAULT_SCHEMA_ID, DEFAULT_SCHEMA_ID, TRUE),
   <<7, 8, 9>>, <<>>}

NextIsolation ==
  \/ \E c \in Chans : Open(c)
  \/ \E c \in Chans, bytes \in IsolationStreams : Inbound(c, bytes)
  \/ \E c \in Chans : Deliver(c)

SpecIsolation == InitRead /\ [][NextIsolation]_vars

\* one BinJSON over its lifetime: every operation that reads the key, and the
\* channel operations
NextLifetime ==
  \/ EncryptCall(<<65>>, Ivs[1])
  \/ DecryptCall(security.key)
  \/ DecryptBytesCall(<<65>>)
  \/ SignCall(<<65>>)
  \/ SerializeForChannel
  \/ \E decrypt \in BOOLEAN : DeserializeCall(decrypt)
  \/ SetHandlerMode("stream", 64)
  \/ \E c \in Chans : Open(c)
  \/ handler.mode = "stream" /\ Send(1, MaxStreams)
  \/ Deliver(2)

SpecLifetime == InitRead /\ [][NextLifetime]_vars

\* fromDict over the range of schema ids the model's integers hold: the ends,
\* the byte boundaries, and an id whose four bytes differ
HeaderIds == {0, 255, 256, 65536, 16909060, 2147483647}

NextHeader ==
  \E i \in DOMAIN Values, s \in HeaderIds, compress \in BOOLEAN :
    FromDictCall(Values[i], s, compress, MainClock)

SpecHeader == InitCodec /\ [][NextHeader]_vars

\* reading what was reassembled: channel 1 streams in chunks of 50 (the first
\* chunk is exactly header and metadata) or 64; channel 2 reassembles and is
\* read at any time, any number of times
ReadySizes == {50, 64}

NextReady ==
  \/ SerializeForChannel
  \/ \E n \in ReadySizes : SetHandlerMode("stream", n)
  \/ \E c \in Chans : Open(c)
  \/ handler.mode = "stream" /\ Send(1, MaxStreams)
  \/ Deliver(2)
  \/ GetReceivedData(2)

SpecReady == InitRead /\ [][NextReady]_vars

-----------------------------------------------------------------------------
(* Claims *)

\* the lengths of the chunks of a chunk sequence
ChunkLengths(items) == [j \in 1..Len(items) |-> Len(items[j])]

RECURSIVE SeqSum(_)
SeqSum(q) == IF q = <<>> THEN 0 ELSE Head(q) + SeqSum(Tail(q))

\* the send the receiving channel's chunks come from, fully delivered, one
\* chunk per onmessage call
StreamDelivered ==
  /\ Len(sent) = 1
  /\ sent[1].mode = "stream"
  /\ sent[1].chunkSize > 0
  /\ inbox[2] = <<>>
  /\ Len(chunkBuffer[2]) = sent[1].count

\* C1: when the chunks send(E) emits in stream mode, chunk size > 0, have all
\* been delivered in order to a fresh receiver, the receiver's
\* currentBinaryJSON has E's header, metadata and payload.
C1_ChunkReassemblyRoundTrip ==
  StreamDelivered =>
    /\ ~IsNull(currentBinaryJSON[2])
    /\ currentBinaryJSON[2].header = sent[1].envelope.header
    /\ currentBinaryJSON[2].metadata = sent[1].envelope.metadata
    /\ currentBinaryJSON[2].payload = sent[1].envelope.payload

\* C2: fromDict(v, s, compress).toDict() returns v, for every value, schema
\* id and compress flag.
C2_CodecRoundTrip ==
  result.op = "toDict" =>
    /\ result.ret.err = "none"
    /\ result.ret.value = result.data

\* C2's case: toDict has run on a compressed envelope built from an object
C2_Witness ==
  /\ result.op = "toDict"
  /\ result.compress
  /\ result.data = Values[1]
  /\ result.schemaId = 16909060

\* C3: decrypt(encrypt(b)) with the same key returns b, and with another key
\* fails with SecurityError.
C3_SecurityRoundTrip ==
  result.op = "decrypt" =>
    IF result.key = security.key
    THEN result.ret.err = "none" /\ result.ret.value = result.data
    ELSE result.ret.err = "SecurityError"

\* C4: with a schema configured, serialize of a value validate rejects fails
\* with SchemaError, returns no envelope, and calls neither fromDict nor
\* encrypt.
C4_SchemaGating ==
  (result.op = "serialize" /\ validator /\ ValidateThrows(result.data)) =>
    /\ result.err = "SchemaError"
    /\ IsNull(result.ret)
    /\ ~Called(result.calls, "fromDict")
    /\ ~Called(result.calls, "encrypt")

\* C4's case: a value missing a required field was given to serialize, with
\* encryption asked for, on an orchestrator that has a schema
C4_Witness ==
  /\ result.op = "serialize"
  /\ validator
  /\ result.data = Values[2]
  /\ result.encrypt
  /\ result.calls = <<"validate">>

\* C5: in stream mode with chunk size n >= 1, process(b) returns
\* ceil(len(b) / n) chunks whose concatenation is b, whose lengths sum to
\* len(b), and all but the last have length n; 2000 bytes with n = 512 give
\* lengths 512, 512, 512, 464.
C5_StreamChunker ==
  (result.op = "process" /\ result.mode = "stream" /\ result.chunkSize >= 1) =>
    LET n == result.chunkSize
        b == result.data
        items == result.ret.items
    IN  /\ result.ret.kind = "array"
        /\ Len(items) = (Len(b) + n - 1) \div n
        /\ BufferConcat(items) = b
        /\ SeqSum(ChunkLengths(items)) = Len(b)
        /\ \A j \in 1..(Len(items) - 1) : Len(items[j]) = n
        /\ (Len(b) = 2000 /\ n = 512) => ChunkLengths(items) = <<512, 512, 512, 464>>

\* C5's case: the scenario's concatenation chunked with the example's size,
\* the last chunk shorter than the others
C5_Witness ==
  /\ result.op = "process"
  /\ result.mode = "stream"
  /\ result.chunkSize = ExampleChunkSize
  /\ result.data = ScenarioData
  /\ Len(result.ret.items) > 1
  /\ Len(result.ret.items[Len(result.ret.items)]) < ExampleChunkSize

\* C6: in batch mode process(b) returns the one-element sequence [b].
C6_BatchIdentity ==
  (result.op = "process" /\ result.mode = "batch") =>
    /\ result.ret.kind = "array"
    /\ result.ret.items = <<result.data>>

\* C7: in batch mode send(E) on an open channel emits exactly one message,
\* the whole serialized envelope.
C7_BatchSendOneMessage ==
  (/\ result.op = "send"
   /\ result.err = "none"
   /\ sent[Len(sent)].mode = "batch") =>
    result.emitted = << Serialized(sent[Len(sent)].envelope) >>

\* C8: no onmessage step raises, whatever the inbound chunks are.
C8_OnMessageNeverRaises ==
  result.op = "onmessage" => result.err = "none"

\* C9: the header is parsed as soon as the cumulative buffer holds at least
\* 10 bytes, wherever the chunk boundaries fall.
C9_ParseByCumulativeBuffer ==
  Len(BufferConcat(chunkBuffer[2])) >= 10 =>
    /\ ~IsNull(currentBinaryJSON[2])
    /\ currentBinaryJSON[2].header = BufSlice(BufferConcat(chunkBuffer[2]), 0, 6)

\* C10: a send while the channel is not open fails with NetworkError and
\* emits nothing; a channel's inbox changes only by a send that succeeded.
C10_NoEmissionWhenNotOpen ==
  [][ /\ (result'.op = "send" /\ wsState'[result'.chan] # "OPEN") =>
           /\ result'.err = "NetworkError"
           /\ result'.emitted = <<>>
           /\ inbox' = inbox
           /\ sent' = sent
      /\ (inbox' # inbox) =>
           /\ result'.op = "send"
           /\ result'.err = "none"
           /\ wsState[result'.chan] = "OPEN" ]_vars

\* C10's case: a send failed with NetworkError on a closed channel after an
\* earlier send had gone out, and the inbox holds the earlier send's messages
\* only
C10_Witness ==
  /\ result.op = "send"
  /\ result.err = "NetworkError"
  /\ wsState[1] = "CLOSED"
  /\ Len(sent) = 1
  /\ Len(inbox[2]) = sent[1].count

\* the reassembly state of the receiving channel is left as it was
ReceiverUnchanged ==
  /\ chunkBuffer' = chunkBuffer
  /\ currentBinaryJSON' = currentBinaryJSON
  /\ inbox' = inbox

C12_OrchestratorRoundTrip ==
  (/\ result.op = "deserialize"
   /\ result.first
   /\ validator
   /\ result.decrypt = result.encrypt) =>
    /\ result.err = "none"
    /\ result.ret = result.data

\* C13: deserialize(e, decrypt = false) of an envelope serialized with
\* encrypt = true fails (the claim names the error CorruptEnvelope); it never
\* returns a value.
C13_SealedNotDecodable ==
  (/\ result.op = "deserialize"
   /\ result.first
   /\ result.encrypt
   /\ ~result.decrypt) =>
    result.err # "none"

\* the envelope serialize(v, 1, true, true) returns for the example's value
SealedExample ==
  SerializeResult(TRUE, security.key, Values[1], DEFAULT_SCHEMA_ID, TRUE, TRUE,
                  MainClock, Ivs[1]).value

\* C14: when the envelope of serialize(v, s, compress, encrypt = true) has
\* been sent and fully received in order by a receiver holding the same key,
\* getReceivedData returns v.
C14_EncryptedDelivery ==
  (/\ StreamDelivered
   /\ sent[1].envelope = SealedExample
   /\ result.op = "getReceivedData") =>
    /\ result.err = "none"
    /\ result.ret = Values[1]

\* C15: toDict of an envelope whose metadata.compression is a string other
\* than 'none' and 'zlib' fails (the claim names the error CorruptEnvelope);
\* the payload is not decoded as if it were uncompressed.
C15_UnknownCompressionRejected ==
  (/\ result.op = "toDictConstructed"
   /\ \E tag \in {S_gzip, S_ZLIB} :
        result.compression = << <<K_compression, VStr(tag)>> >>) =>
    result.ret.err # "none"

\* C16: decrypt of an input shorter than 16 bytes, the empty input included,
\* fails with SecurityError and returns no bytes.
C16_ShortInputRejected ==
  (result.op = "decryptBytes" /\ Len(result.sealed) < 16) =>
    result.ret.err = "SecurityError"

\* the schema identifier an envelope's header carries, and the one its
\* metadata carries
HeaderSchemaId(e) == ReadUInt32BE(e.header, 2)
MetadataSchemaId(e) == GetProp(e.metadata, K_schema_id)

\* the magic is the fixed constant and the two schema identifiers agree
EnvelopeWellFormed(e) ==
  /\ Len(e.header) = 6
  /\ BufSlice(e.header, 0, 2) = MAGIC_NUMBER
  /\ MetadataSchemaId(e) = VInt(HeaderSchemaId(e))

\* C17: every envelope serialize returns, sealed or not, and every envelope
\* loadFromFile reconstructs, has the magic constant in its first two header
\* bytes and the same schema identifier in its header and its metadata.
C17_SchemaIdInvariant ==
  /\ (result.op = "serialize" /\ result.err = "none") =>
       EnvelopeWellFormed(result.ret)
  /\ (result.op = "loadFromFile" /\ result.err = "none") =>
       EnvelopeWellFormed(result.ret)

\* bytes is the wire layout of envelope e: header, 4-byte big-endian length
\* of the encoded metadata, encoded metadata, payload
WireLayout(bytes, e) ==
  LET m == MsgpackEncode(e.metadata)
  IN  /\ BufSlice(bytes, 0, 6) = e.header
      /\ BufSlice(bytes, 6, 10) = UInt32Bytes(Len(m))
      /\ BufSlice(bytes, 10, 10 + Len(m)) = m
      /\ BufSliceFrom(bytes, 10 + Len(m)) = e.payload

\* a file in the wire layout, as another program writes it
WireFile == ForeignFile(MAGIC_NUMBER, DEFAULT_SCHEMA_ID, DEFAULT_SCHEMA_ID, TRUE)

\* C18: the bytes saveToFile persists carry the metadata length at
\* bytes[6:10], the encoded metadata at bytes[10:10+length] and the payload
\* after it, and loadFromFile slices metadata and payload at those offsets.
C18_WireLayout ==
  /\ result.op = "saveToFile" => WireLayout(file, result.saved)
  /\ (result.op = "loadFromFile" /\ file # NoFile /\ file = WireFile) =>
       /\ result.err = "none"
       /\ WireLayout(file, result.ret)

\* C19: on an open channel in stream mode one send call emits the slices of
\* the serialized envelope, each once, in increasing offset order, and the
\* channel carries them in that order: their concatenation is the serialized
\* envelope.
C19_SendOrder ==
  (/\ result.op = "send"
   /\ result.err = "none"
   /\ sent[Len(sent)].mode = "stream") =>
    LET b == Serialized(sent[Len(sent)].envelope)
        n == sent[Len(sent)].chunkSize
        e == result.emitted
        q == inbox[Peer(result.chan)]
    IN  /\ Len(e) = (Len(b) + n - 1) \div n
        /\ \A j \in 1..Len(e) : e[j] = BufSlice(b, (j - 1) * n, j * n)
        /\ BufferConcat(e) = b
        /\ Len(q) >= Len(e)
        /\ SubSeq(q, Len(q) - Len(e) + 1, Len(q)) = e

\* C19's case: a stream-mode send has emitted several chunks
C19_Witness ==
  /\ result.op = "send"
  /\ result.err = "none"
  /\ sent[Len(sent)].mode = "stream"
  /\ sent[Len(sent)].chunkSize = 16
  /\ Len(result.emitted) = 5
  /\ Len(result.emitted[5]) < 16

\* C20: a chunk size of zero or below is rejected as a configuration error:
\* process never runs the streaming chunker with chunkSize <= 0.
C20_ChunkSizePositive ==
  (result.op = "process" /\ result.mode = "stream") =>
    /\ result.chunkSize >= 1
    /\ result.ret.kind = "array"

\* C21: when the channel closes, the buffered chunks and the partial envelope
\* are discarded, and a read after the close returns nothing.
C21_CloseDiscardsState ==
  wsState[2] = "CLOSED" =>
    /\ chunkBuffer[2] = <<>>
    /\ IsNull(currentBinaryJSON[2])
    /\ result.op = "getReceivedData" => result.err # "none"

\* two streams have been sent on channel 1 and every chunk of both has been
\* delivered in order to channel 2
TwoStreamsDelivered ==
  /\ Len(sent) = 2
  /\ \A k \in 1..2 : sent[k].mode = "stream" /\ sent[k].chunkSize > 0
  /\ inbox[2] = <<>>
  /\ Len(chunkBuffer[2]) = sent[1].count + sent[2].count

\* C22: after a first envelope was reconstructed, the chunks of a second
\* envelope sent on the same channel are reassembled into the second envelope
\* alone: the receiver holds the second envelope's header, metadata and
\* payload, and no byte of it was appended to the first one's payload.
C22_NewStreamResets ==
  TwoStreamsDelivered =>
    /\ ~IsNull(currentBinaryJSON[2])
    /\ currentBinaryJSON[2].header = sent[2].envelope.header
    /\ currentBinaryJSON[2].metadata = sent[2].envelope.metadata
    /\ currentBinaryJSON[2].payload = sent[2].envelope.payload

\* the chunks of the one envelope sent, in send order
SentChunks ==
  ProcessLoop(Serialized(sent[1].envelope), sent[1].chunkSize, 0, <<>>)

\* channel 2 has been handed chunks of the one envelope sent in an order that
\* is not the send order
OutOfOrder ==
  /\ Len(sent) = 1
  /\ chunkBuffer[2] # SubSeq(SentChunks, 1, Len(chunkBuffer[2]))

StreamWithoutMagic ==
  /\ chunkBuffer[2] # <<>>
  /\ BufSlice(chunkBuffer[2][1], 0, 2) # MAGIC_NUMBER

\* C24: a stream whose first bytes are not the magic number never yields an
\* envelope, and the onmessage step that takes its first chunk reports
\* CorruptEnvelope.
C24_MagicValidated ==
  StreamWithoutMagic =>
    /\ IsNull(currentBinaryJSON[2])
    /\ (result.op = "onmessage" /\ Len(chunkBuffer[2]) = 1) =>
         result.err = "CorruptEnvelope"

\* C25: loading the file saveToFile wrote for an envelope returns an envelope
\* whose header, metadata and payload are those of the saved one (so that
\* deserialize of the loaded envelope gives what it gives for the saved one).
C25_PersistRoundTrip ==
  (result.op = "loadFromFile" /\ ~IsNull(envelope)
     /\ file # NoFile /\ file = SaveToFileBuffer(envelope)) =>
    /\ result.err = "none"
    /\ result.ret.header = envelope.header
    /\ result.ret.metadata = envelope.metadata
    /\ result.ret.payload = envelope.payload

\* what a channel that alone received these chunks, in this order, holds
RECURSIVE ReplayFrom(_, _, _, _)
ReplayFrom(chunks, i, buffer, current) ==
  IF i > Len(chunks) THEN current
  ELSE LET r == OnMessage(buffer, current, chunks[i])
       IN  ReplayFrom(chunks, i + 1, r.chunkBuffer, r.current)

Replay(chunks) == ReplayFrom(chunks, 1, <<>>, NoEnvelope)

\* C26: with two channels created by one BinJSON, a chunk arriving on one
\* channel leaves the other channel's chunk buffer and envelope unchanged, and
\* each channel holds the envelope it would hold had it received its chunks
\* alone.
C26_ChannelIsolation ==
  /\ [](\A c \in Chans : currentBinaryJSON[c] = Replay(chunkBuffer[c]))
  /\ [][\A c \in Chans :
          (result'.op = "onmessage" /\ result'.chan = c) =>
            /\ chunkBuffer'[Peer(c)] = chunkBuffer[Peer(c)]
            /\ currentBinaryJSON'[Peer(c)] = currentBinaryJSON[Peer(c)]]_vars

\* both channels have received chunks, different ones, and one of them holds
\* an envelope while the other does not
C26_Witness ==
  /\ Len(chunkBuffer[1]) = 2 /\ ~IsNull(currentBinaryJSON[1])
  /\ Len(chunkBuffer[2]) = 1 /\ IsNull(currentBinaryJSON[2])

\* the last call was a serialize with encrypt = true that returned
SealedSerialize ==
  result.op = "serialize" /\ result.err = "none" /\ result.encrypt

\* the envelope construction builds for the data of the last serialize call
Constructed ==
  FromDict(result.data, DEFAULT_SCHEMA_ID, result.compress, MainClock)

\* C27: serialize with encrypt = true returns the header and the metadata
\* that envelope construction produced; only the payload is replaced, by the
\* sealed form of the constructed payload.
C27_EncryptionRewritesOnlyPayload ==
  SealedSerialize =>
    /\ result.ret.header = Constructed.header
    /\ result.ret.metadata = Constructed.metadata
    /\ \E j \in DOMAIN Ivs :
         result.ret.payload =
           Encrypt(security.key, Constructed.payload, Ivs[j]).value

\* a compressed envelope was sealed and its payload is no longer the
\* constructed one
C27_Witness ==
  /\ SealedSerialize
  /\ result.compress
  /\ result.ret.payload # Constructed.payload
  /\ envelope = result.ret

\* C28: no encrypt, decrypt, sign, serialize, deserialize, setHandlerMode,
\* send or inbound-chunk step changes the SecurityManager's key.
C28_KeyImmutable == [][security'.key = security.key]_vars

\* a sealed envelope was streamed and the receiving channel has taken a chunk
\* of it after the manager signed something
C28_Witness ==
  /\ result.op = "sign"
  /\ Len(result.ret) = 64
  /\ Len(sent) = 1
  /\ chunkBuffer[2] # <<>>
  /\ handler.mode = "stream"

\* the bytes after the metadata block in the concatenation of the chunks
\* channel 2 has received: the block starts after the 6-byte header and is
\* the encoding of the parsed metadata
AfterMetadata ==
  BufSliceFrom(BufferConcat(chunkBuffer[2]),
               6 + Len(MsgpackEncode(currentBinaryJSON[2].metadata)))

\* C30: once header and metadata are parsed, after every processed chunk the
\* payload is the bytes that follow the metadata block in the concatenation of
\* the chunks received so far, in arrival order, and header and metadata are
\* those of the first parse.
C30_AccumulatingInvariant ==
  ~IsNull(currentBinaryJSON[2]) =>
    /\ currentBinaryJSON[2].payload = AfterMetadata
    /\ currentBinaryJSON[2].header = BufSlice(chunkBuffer[2][1], 0, 6)
    /\ currentBinaryJSON[2].metadata =
         OnMessage(<<>>, NoEnvelope, chunkBuffer[2][1]).current.metadata

\* C31: the header fromDict builds for schema id s is 6 bytes, the magic
\* constant 0x42 0x4A followed by s in big-endian order: bytes 2-5 read as a
\* big-endian unsigned integer give s (s below 2^31, so byte 2 is below 128).
C31_HeaderEncoding ==
  result.op = "fromDict" =>
    LET h == envelope.header
    IN  /\ Len(h) = 6
        /\ h[1] = 66 /\ h[2] = 74
        /\ \A j \in 3..6 : h[j] \in 0..255
        /\ h[3] < 128
        /\ h[3] * 16777216 + h[4] * 65536 + h[5] * 256 + h[6] = result.schemaId

\* a header was built for an id whose four bytes all differ
C31_Witness ==
  /\ result.op = "fromDict"
  /\ result.schemaId = 16909060
  /\ envelope.header = <<66, 74, 1, 2, 3, 4>>

\* the compression entry of the envelope fromDict just built
CompressionTag == GetProp(envelope.metadata, K_compression)

\* C32: the envelope fromDict(value, schemaId, compress) returns carries the
\* tag 'zlib' exactly when compress is true, its payload then inflating to the
\* encoding of value, and 'none' exactly when compress is false, its payload
\* then being the encoding of value; the metadata also carries the schema id
\* and a timestamp.
C32_CompressionTagConsistent ==
  result.op = "fromDict" =>
    /\ CompressionTag \in {VStr(S_zlib), VStr(S_none)}
    /\ (CompressionTag = VStr(S_zlib)) <=> result.compress
    /\ (CompressionTag = VStr(S_none)) <=> ~result.compress
    /\ result.compress =>
         /\ ~InflateThrows(envelope.payload)
         /\ InflateSync(envelope.payload) = MsgpackEncode(result.data)
         /\ envelope.payload # MsgpackEncode(result.data)
    /\ ~result.compress => envelope.payload = MsgpackEncode(result.data)
    /\ GetProp(envelope.metadata, K_schema_id) = VInt(result.schemaId)
    /\ \E now \in Clocks : GetProp(envelope.metadata, K_timestamp) = VInt(now)

\* a compressed envelope was built from an object with three properties
C32_Witness ==
  /\ result.op = "fromDict"
  /\ result.compress
  /\ result.data = Values[3]
  /\ CompressionTag = VStr(S_zlib)
  /\ Len(envelope.payload) = Len(MsgpackEncode(Values[3])) + 3

\* decrypt as the layout has it: the first 16 bytes are the IV and the bytes
\* from offset 16 on are the ciphertext (in the encoding encrypt gave it)
DecryptSplitAt16(key, data) ==
  LET decrypted == AesDecrypt(Base64Parse(BufSliceFrom(data, 16)), key,
                              BufSlice(data, 0, 16))
  IN  IF ValidUtf8(decrypted) THEN Returned(decrypted)
      ELSE Thrown("SecurityError")

\* C33: encrypt returns the 16 raw IV bytes followed by the raw ciphertext
\* bytes, 16 + ciphertext length in all, and decrypt splits its input at
\* offset 16 into IV and ciphertext.
C33_SealedLayout ==
  /\ result.op = "encrypt" =>
       LET ciphertext == AesEncrypt(result.data, security.key, result.iv)
       IN  /\ result.ret.err = "none"
           /\ Len(result.ret.value) = 16 + Len(ciphertext)
           /\ result.ret.value = result.iv \o ciphertext
  /\ result.op = "decrypt" =>
       result.ret = DecryptSplitAt16(result.key, result.sealed)

\* C34: a getReceivedData call on a channel holding a reconstructed envelope
\* changes neither the buffered chunks nor the envelope, and when the call
\* before it was a getReceivedData too, with no chunk in between, it returns
\* what that call returned.
C34_RepeatableReads ==
  [][ (result'.op = "getReceivedData" /\ ~IsNull(currentBinaryJSON[2])) =>
        /\ ReceiverUnchanged
        /\ result.op = "getReceivedData" => result' = result ]_vars

\* a read returned the example value from an envelope reassembled from two
\* chunks
C34_Witness ==
  /\ result.op = "getReceivedData"
  /\ result.err = "none"
  /\ result.ret = Values[1]
  /\ Len(chunkBuffer[2]) = 2
  /\ currentBinaryJSON[2].payload # <<>>

\* C35: deserialize(envelope, decrypt) leaves the envelope's header, metadata
\* and payload as they were, for either decrypt flag, and a second call on the
\* same envelope with the same flag returns what the first returned.
C35_DeserializeReadOnly ==
  [][ result'.op = "deserialize" =>
        /\ envelope'.header = envelope.header
        /\ envelope'.metadata = envelope.metadata
        /\ envelope'.payload = envelope.payload
        /\ (result.op = "deserialize" /\ result.decrypt = result'.decrypt) =>
             (result'.err = result.err /\ result'.ret = result.ret) ]_vars

\* what the first k send calls put on the channel when each call's messages,
\* chunked by the handler setting in force at that call, follow those of the
\* calls before it
RECURSIVE QueueOfSends(_)
QueueOfSends(k) ==
  IF k = 0 THEN <<>>
  ELSE QueueOfSends(k - 1)
       \o SendMessages([mode |-> sent[k].mode, chunkSize |-> sent[k].chunkSize],
                       sent[k].envelope)

\* C36: the messages on the channel are those of the first send call, then
\* those of the second, and so on, none interleaved, each call chunked by the
\* handler setting in force when it was made: a setHandlerMode between two
\* sends changes the chunks of the later one only.
C36_SendsDoNotInterleave ==
  inbox[2] = QueueOfSends(Len(sent))

\* two sends went out with different chunk sizes, five chunks and then one
C36_Witness ==
  /\ Len(sent) = 2
  /\ sent[1].mode = "stream" /\ sent[1].chunkSize = 16 /\ sent[1].count = 5
  /\ sent[2].mode = "stream" /\ sent[2].chunkSize = CHUNK_SIZE /\ sent[2].count = 1
  /\ Len(inbox[2]) = 6
  /\ Len(inbox[2][1]) = 16
  /\ Len(inbox[2][6]) = Len(Serialized(sent[2].envelope))

\* C37: in stream mode process terminates and returns its chunk sequence, for
\* every byte sequence, the empty one included, and every chunk size the
\* handler was given.
C37_ChunkerTerminates ==
  (result.op = "process" /\ result.mode = "stream") =>
    /\ result.ret.kind # "diverges"
    /\ result.ret.kind = "array"
    /\ BufferConcat(result.ret.items) = result.data

====
